---- MODULE Spec2Model ----
(***************************************************************************)
(* A model of the three data-preparation scripts of bert_fet:              *)
(*   scripts/cfet2bfet.py    tokenize, convert                             *)
(*   scripts/sample_cfet.py  count_labels, downsample, split               *)
(*   scripts/wikiann2cfet.py extract_data                                  *)
(* Each script is a sequential pass over its input; one specification per  *)
(* script (SpecPieces, SpecConvert, SpecSample, SpecExtract) runs it on    *)
(* inputs drawn from small pools.                                          *)
(***************************************************************************)
EXTENDS Integers, Sequences, FiniteSets

(***************************************************************************)
(* Generic helpers.                                                        *)
(***************************************************************************)
Range(s) == {s[i] : i \in DOMAIN s}

\* All sequences over S of length 0..n.
SeqsUpTo(S, n) == UNION {[1..k -> S] : k \in 0..n}

RECURSIVE Flatten(_)
Flatten(ss) == IF ss = <<>> THEN <<>> ELSE ss[1] \o Flatten(Tail(ss))

(***************************************************************************)
(* cfet2bfet.py                                                            *)
(***************************************************************************)
\* Longest token sequence of an instance.
MaxTokens == 3

\* Word-level tokens the instances are built from.
TokenPool == {"", "cat", "cats"}

\* Model families create_tokenizer accepts, and one it rejects.
ModelNames == {"bert", "roberta", "gpt2"}

\* max_len values given on the command line (-l).
MaxLens == {1, 4, 8}

\* tokenizer.tokenize(t): the word pieces of one token, zero or more.
TokenizerTokenize(tokenizer, t) ==
    IF tokenizer = "bert"
    THEN CASE t = "cat"  -> <<"cat">>
           [] t = "cats" -> <<"cat", "##s">>
           [] OTHER      -> <<>>
    ELSE CASE t = "cat"  -> <<"c", "at">>
           [] t = "cats" -> <<"c", "at", "s">>
           [] OTHER      -> <<>>

\* create_tokenizer: the tokenizer of a model name, or a ValueError.
create_tokenizer(model_name) ==
    IF model_name = "bert" THEN [ok |-> TRUE, tokenizer |-> "bert"]
    ELSE IF model_name = "roberta" THEN [ok |-> TRUE, tokenizer |-> "roberta"]
    ELSE [ok |-> FALSE, tokenizer |-> "none"]

\* Line 57: the pieces of every token, in order.
PiecesList(tokens, tokenizer) ==
    [i \in DOMAIN tokens |-> TokenizerTokenize(tokenizer, tokens[i])]

\* Line 62: the offset after one token's pieces.
EndOffsetMutant(offset, pieces) == offset + 1
EndOffset(offset, pieces) == offset + Len(pieces)

\* Token sequences tokenize is called with.
TokenSeqs == SeqsUpTo(TokenPool, MaxTokens)

VARIABLES
    \* --- cfet2bfet.py ---
    pc,               \* where the run is
    inst,             \* convert: the instance read from the line (line 95)
    tokens,           \* the token sequence (tokenize's parameter; line 96)
    tokenizer,        \* the tokenizer in use
    max_len,          \* the -l argument
    pieces_list,      \* tokenize: line 57
    tk_i,             \* tokenize: number of loop iterations done
    offset,           \* tokenize: line 58
    piece_indices,    \* tokenize: line 59
    pieces_list_flat, \* tokenize: line 60
    overlength_num,   \* convert: line 92
    output,           \* lines written to the output file
    bert_model,       \* the -m argument
    input,            \* the lines of the input file, one instance each
    line_no,          \* number of input lines read by the current pass
    \* --- sample_cfet.py ---
    op,               \* "downsample" or "split"
    threshold,        \* the threshold argument
    rate,             \* split: the rate argument, in units of 1/RateDen
    label_count,      \* the Counter of label frequencies
    total_num,        \* downsample: line 24
    sample_num,       \* downsample: line 24
    reported,         \* downsample: lines 47-48 have printed the totals
    uniform_calls,    \* input line numbers at which random.uniform was called
    train_out,        \* split: lines written to train_file
    dev_out,          \* split: lines written to dev_file
    \* --- wikiann2cfet.py ---
    store,            \* the records col.find() still has to return
    doc,              \* the record being processed
    doc_mention_count,\* line 99
    valid_num,        \* line 100
    entity_num,       \* line 100
    not_matched_num,  \* line 100
    title_num,        \* line 100
    link_i,           \* number of links of doc examined (lines 110-126)
    entities,         \* line 109
    token_start_offset_map, \* line 133
    token_end_offset_map,   \* line 134
    ent_i,            \* number of entities of doc examined (lines 140-155)
    annotations       \* line 139

pieceVars == <<pc, inst, tokenizer, max_len, pieces_list, tk_i, offset,
               piece_indices, pieces_list_flat, overlength_num, tokens,
               output>>

convertVars == <<bert_model, input, line_no>>

sampleVars == <<op, threshold, rate, label_count, total_num, sample_num,
                reported, uniform_calls, train_out, dev_out>>

extractVars == <<store, doc, doc_mention_count, valid_num, entity_num,
                 not_matched_num, title_num, link_i, entities,
                 token_start_offset_map, token_end_offset_map, ent_i,
                 annotations>>

vars == <<pieceVars, convertVars, sampleVars, extractVars>>

\* The variables a script does not use keep these values.
IdlePieces ==
    /\ inst = [tokens |-> <<>>, annotations |-> <<>>]
    /\ tokenizer = "none"
    /\ max_len = 0
    /\ pieces_list = <<>>
    /\ tk_i = 0
    /\ offset = 0
    /\ piece_indices = <<>>
    /\ pieces_list_flat = <<>>
    /\ overlength_num = 0
    /\ tokens = <<>>

IdleConvert ==
    /\ bert_model = "none"
    /\ input = <<>>
    /\ line_no = 0

IdleSample ==
    /\ op = "none"
    /\ threshold = 0
    /\ rate = 0
    /\ label_count = <<>>
    /\ total_num = 0
    /\ sample_num = 0
    /\ reported = FALSE
    /\ uniform_calls = <<>>
    /\ train_out = <<>>
    /\ dev_out = <<>>

IdleExtract ==
    /\ store = <<>>
    /\ doc = <<>>
    /\ doc_mention_count = <<>>
    /\ valid_num = 0
    /\ entity_num = 0
    /\ not_matched_num = 0
    /\ title_num = 0
    /\ link_i = 0
    /\ entities = <<>>
    /\ token_start_offset_map = <<>>
    /\ token_end_offset_map = <<>>
    /\ ent_i = 0
    /\ annotations = <<>>

(***************************************************************************)
(* SpecPieces: one call tokenize(tokens, tokenizer), lines 43-66.          *)
(***************************************************************************)
InitPieces ==
    /\ pc = "tokenize"
    /\ tokens \in TokenSeqs
    /\ tokenizer \in {"bert", "roberta"}
    /\ pieces_list = <<>>
    /\ tk_i = 0
    /\ offset = 0
    /\ piece_indices = <<>>
    /\ pieces_list_flat = <<>>
    /\ inst = [tokens |-> <<>>, annotations |-> <<>>]
    /\ max_len = 0
    /\ overlength_num = 0
    /\ output = <<>>
    /\ IdleConvert /\ IdleSample /\ IdleExtract

\* tokenize, lines 57-60.
TokenizeEnter ==
    /\ pc = "tokenize"
    /\ pieces_list' = PiecesList(tokens, tokenizer)
    /\ offset' = 0
    /\ piece_indices' = <<>>
    /\ pieces_list_flat' = <<>>
    /\ tk_i' = 0
    /\ pc' = "tokenize_loop"
    /\ UNCHANGED <<inst, tokens, tokenizer, max_len, overlength_num, output>>
    /\ UNCHANGED <<convertVars, sampleVars, extractVars>>

\* tokenize, lines 61-65: one iteration of the loop over pieces_list.
TokenizeLoop ==
    /\ pc = "tokenize_loop"
    /\ tk_i < Len(pieces_list)
    /\ LET pieces == pieces_list[tk_i + 1]
           end == EndOffset(offset, pieces)
       IN  /\ piece_indices' = Append(piece_indices, <<offset, end>>)
           /\ offset' = end
           /\ pieces_list_flat' = pieces_list_flat \o pieces
    /\ tk_i' = tk_i + 1
    /\ UNCHANGED <<pc, inst, tokens, tokenizer, max_len, pieces_list,
                   overlength_num, output>>
    /\ UNCHANGED <<convertVars, sampleVars, extractVars>>

\* tokenize, line 66: (pieces_list_flat, piece_indices) is returned.
TokenizeReturn ==
    /\ pc = "tokenize_loop"
    /\ tk_i = Len(pieces_list)
    /\ pc' = "tokenized"
    /\ UNCHANGED <<inst, tokens, tokenizer, max_len, pieces_list, tk_i,
                   offset, piece_indices, pieces_list_flat, overlength_num,
                   output>>
    /\ UNCHANGED <<convertVars, sampleVars, extractVars>>

NextPieces ==
    \/ TokenizeEnter
    \/ TokenizeLoop
    \/ TokenizeReturn

SpecPieces == InitPieces /\ [][NextPieces]_vars

(***************************************************************************)
(* Claim about tokenize.                                                   *)
(***************************************************************************)
\* tokenize has returned.
Tokenized == pc = "tokenized"

\* Number of pieces the tokenizer gives token i (1-based).
PieceCount(i) == Len(TokenizerTokenize(tokenizer, tokens[i]))

\* C2: piece-index partition.  Once tokenize has returned, the table has one
\* (offset_begin, offset_end) entry per token, the first begins at 0, each
\* entry begins where the previous one ends, the width of entry i is the
\* piece count of token i, the last entry ends at len(flat_pieces), and
\* flat_pieces is the in-order concatenation of the per-token pieces.
C2_PiecePartition ==
    Tokenized =>
        /\ Len(piece_indices) = Len(tokens)
        /\ \A i \in DOMAIN piece_indices :
              /\ piece_indices[i][1] = (IF i = 1 THEN 0 ELSE piece_indices[i - 1][2])
              /\ piece_indices[i][2] - piece_indices[i][1] = PieceCount(i)
        /\ (piece_indices # <<>> =>
              piece_indices[Len(piece_indices)][2] = Len(pieces_list_flat))
        /\ (piece_indices = <<>> => pieces_list_flat = <<>>)
        /\ pieces_list_flat =
              Flatten([i \in DOMAIN tokens |->
                          TokenizerTokenize(tokenizer, tokens[i])])

\* C2 witness: tokenize returned on three tokens, one of zero pieces and one
\* of two pieces.
C2_Witness ==
    /\ Tokenized
    /\ Len(tokens) = 3
    /\ \E i \in DOMAIN tokens : PieceCount(i) = 0
    /\ \E i \in DOMAIN tokens : PieceCount(i) = 2
    /\ piece_indices[3][2] = Len(pieces_list_flat)

(***************************************************************************)
(* SpecConvert: convert as called from main, over a whole input file.      *)
(***************************************************************************)
\* Longest input file, in lines.
MaxLines == 2

\* Lines of the input file.
LinePool ==
    {[tokens |-> <<>>, annotations |-> <<>>],
     [tokens |-> <<"cat">>, annotations |-> <<[start |-> 0, end |-> 1]>>],
     [tokens |-> <<"cat", "cat">>, annotations |-> <<[start |-> 0, end |-> 1]>>],
     [tokens |-> <<"cats", "cats">>, annotations |-> <<[start |-> 0, end |-> 1]>>],
     [tokens |-> <<"cats", "", "cat">>, annotations |-> <<[start |-> 1, end |-> 3]>>]}

InitConvert ==
    /\ pc = "start"
    /\ bert_model \in ModelNames
    /\ input \in SeqsUpTo(LinePool, MaxLines)
    /\ max_len \in MaxLens
    /\ line_no = 0
    /\ output = <<>>
    /\ inst = [tokens |-> <<>>, annotations |-> <<>>]
    /\ tokens = <<>>
    /\ tokenizer = "none"
    /\ pieces_list = <<>>
    /\ tk_i = 0
    /\ offset = 0
    /\ piece_indices = <<>>
    /\ pieces_list_flat = <<>>
    /\ overlength_num = 0
    /\ IdleSample /\ IdleExtract

\* convert, lines 87-93: the tokenizer is created (or the model name is
\* refused), the counter is zeroed and the files are opened.
ConvertStart ==
    /\ pc = "start"
    /\ LET made == create_tokenizer(bert_model)
       IN  IF made.ok
           THEN /\ tokenizer' = made.tokenizer
                /\ overlength_num' = 0
                /\ output' = <<>>
                /\ pc' = "loop"
           ELSE /\ pc' = "ValueError"
                /\ UNCHANGED <<tokenizer, overlength_num, output>>
    /\ UNCHANGED <<inst, tokens, max_len, pieces_list, tk_i, offset,
                   piece_indices, pieces_list_flat>>
    /\ UNCHANGED <<convertVars, sampleVars, extractVars>>

\* A call of tokenize binds its two required parameters (lines 43-45) or
\* raises TypeError before the body runs.
TokenizeCallAccepted(n_args) == n_args = 2

\* convert, lines 94-97: a line is read and parsed, its tokens are taken, and
\* tokenize is called with the tokens alone.  The call raises TypeError, the
\* exception leaves the loop and the function, and the with block closes both
\* files: lines 98-111 do not run.
ConvertLine ==
    /\ pc = "loop"
    /\ line_no < Len(input)
    /\ ~TokenizeCallAccepted(1)
    /\ inst' = input[line_no + 1]
    /\ tokens' = input[line_no + 1].tokens
    /\ line_no' = line_no + 1
    /\ pc' = "TypeError"
    /\ UNCHANGED <<tokenizer, max_len, pieces_list, tk_i, offset,
                   piece_indices, pieces_list_flat, overlength_num, output,
                   bert_model, input>>
    /\ UNCHANGED <<sampleVars, extractVars>>

\* convert, line 94 at the end of the input: the loop and the function end.
ConvertEnd ==
    /\ pc = "loop"
    /\ line_no = Len(input)
    /\ pc' = "done"
    /\ UNCHANGED <<inst, tokens, tokenizer, max_len, pieces_list, tk_i,
                   offset, piece_indices, pieces_list_flat, overlength_num,
                   output>>
    /\ UNCHANGED <<convertVars, sampleVars, extractVars>>

NextConvert ==
    \/ ConvertStart
    \/ ConvertLine
    \/ ConvertEnd

SpecConvert == InitConvert /\ [][NextConvert]_vars

(***************************************************************************)
(* Claims about convert.                                                   *)
(***************************************************************************)
\* The piece-index table of a token sequence: one (offset_begin, offset_end)
\* pair per token, the first beginning at from.
RECURSIVE TableFrom(_, _, _)
TableFrom(toks, tkz, from) ==
    IF toks = <<>> THEN <<>>
    ELSE LET n == Len(TokenizerTokenize(tkz, Head(toks)))
         IN  <<<<from, from + n>>>> \o TableFrom(Tail(toks), tkz, from + n)

\* Total piece count of a token sequence.
TotalPieces(toks, tkz) == Len(Flatten(PiecesList(toks, tkz)))

\* An instance to keep: its total piece count does not exceed max_len - 2.
ToKeep(line) == TotalPieces(line.tokens, tokenizer) <= max_len - 2

\* Input lines the run has read.
LinesRead == {i \in DOMAIN input : i <= line_no}

\* C1: span projection soundness.  For every instance read that is to be
\* kept, the projection succeeds: a line is written for it, and on each of
\* its annotations with 0 <= start < end <= len(tokens), piece_start and
\* piece_end are integers, piece_start the offset_begin of table entry start,
\* piece_end the offset_end of table entry end-1, with
\* 0 <= piece_start < piece_end <= total piece count.
C1_SpanProjectionSound ==
    pc \in {"done", "TypeError"} =>
        \A i \in LinesRead :
            ToKeep(input[i]) =>
                \E o \in Range(output) :
                    /\ o.tokens = input[i].tokens
                    /\ Len(o.annotations) = Len(input[i].annotations)
                    /\ \A k \in DOMAIN o.annotations :
                          LET a == input[i].annotations[k]
                              table == TableFrom(o.tokens, tokenizer, 0)
                              b == o.annotations[k]
                          IN  (0 <= a.start /\ a.start < a.end
                                 /\ a.end <= Len(o.tokens)) =>
                                /\ b.piece_start = table[a.start + 1][1]
                                /\ b.piece_end = table[a.end][2]
                                /\ 0 <= b.piece_start
                                /\ b.piece_start < b.piece_end
                                /\ b.piece_end <= TotalPieces(o.tokens, tokenizer)

\* C3: atomic drop.  Every instance read is either counted as overlength or
\* written as one output line, never neither: after any sequence of input
\* instances, lines written + overlength counter = instances read.
C3_AtomicDrop ==
    pc \in {"loop", "done", "TypeError"} =>
        Len(output) + overlength_num = line_no

(***************************************************************************)
(* sample_cfet.py                                                          *)
(***************************************************************************)
\* Longest corpus, in lines.
MaxInst == 3

Ann(labels) == [labels |-> labels]

Inst(anns) == [annotations |-> anns]

\* Lines of the input corpus: no annotation, an annotation without labels,
\* one or two labels, a repeated label, two annotations.
InstancePool ==
    {Inst(<<>>),
     Inst(<<Ann(<<>>)>>),
     Inst(<<Ann(<<"A">>)>>),
     Inst(<<Ann(<<"B">>)>>),
     Inst(<<Ann(<<"A", "B">>)>>),
     Inst(<<Ann(<<"A", "A">>)>>),
     Inst(<<Ann(<<"B">>), Ann(<<"A">>)>>),
     Inst(<<Ann(<<"B">>), Ann(<<"B", "A">>)>>)}

LabelPool == {"A", "B"}

\* threshold arguments.
Thresholds == {-3, -2, 0, 1, 2, 4}

\* rate arguments of split, as fractions.
Rates == {[num |-> -1, den |-> 2], [num |-> 1, den |-> 2],
          [num |-> 1, den |-> 1]}

\* Counter()[label]: a missing key reads as 0.
CounterGet(c, label) == IF label \in DOMAIN c THEN c[label] ELSE 0

\* One element counted by Counter.update.
CounterAddMutant(c, label) ==
    [l \in DOMAIN c \cup {label} |-> IF l = label THEN 1 ELSE c[l]]
CounterAdd(c, label) ==
    [l \in DOMAIN c \cup {label} |->
        IF l = label THEN CounterGet(c, label) + 1 ELSE c[l]]

\* Counter.update(labels): every element of the list is counted.
RECURSIVE CounterUpdate(_, _)
CounterUpdate(c, labels) ==
    IF labels = <<>> THEN c
    ELSE CounterUpdate(CounterAdd(c, Head(labels)), Tail(labels))

\* Lines 13-14 and 62-63: the labels of every annotation of one instance.
RECURSIVE CountAnnotations(_, _)
CountAnnotations(c, anns) ==
    IF anns = <<>> THEN c
    ELSE CountAnnotations(CounterUpdate(c, Head(anns).labels), Tail(anns))

\* count_labels, lines 9-17, as a function of the whole corpus.
RECURSIVE CountCorpus(_, _)
CountCorpus(c, corpus) ==
    IF corpus = <<>> THEN c
    ELSE CountCorpus(CountAnnotations(c, Head(corpus).annotations), Tail(corpus))

count_labels(corpus) == CountCorpus(<<>>, corpus)

\* Lines 34-36: the count of every label of every annotation of the instance.
InstLabelCount(instance, c) ==
    Flatten([a \in DOMAIN instance.annotations |->
                [k \in DOMAIN instance.annotations[a].labels |->
                    CounterGet(c, instance.annotations[a].labels[k])]])

\* Line 38: inst_label_count[0] raises IndexError on an empty list.
IndexZeroRaisesMutant(list) == FALSE
IndexZeroRaises(list) == list = <<>>

\* Lines 37-38: the first count of the sorted list, its minimum.
RECURSIVE MinOf(_)
MinOf(counts) ==
    IF counts = <<>> THEN 0
    ELSE IF Len(counts) = 1 THEN counts[1]
    ELSE LET m == MinOf(Tail(counts))
         IN  IF counts[1] <= m THEN counts[1] ELSE m

\* Integers of any size, as the program's ints are: a natural number is the
\* sequence of its digits in base DigitBase, lowest first, without leading
\* zeros (0 is the empty sequence).
DigitBase == 1000

RECURSIVE BigOf(_)
BigOf(n) ==
    IF n = 0 THEN <<>> ELSE <<n % DigitBase>> \o BigOf(n \div DigitBase)

RECURSIVE BigAdd(_, _, _)
BigAdd(a, b, carry) ==
    IF a = <<>> /\ b = <<>>
    THEN (IF carry = 0 THEN <<>> ELSE <<carry>>)
    ELSE LET x == IF a = <<>> THEN 0 ELSE Head(a)
             y == IF b = <<>> THEN 0 ELSE Head(b)
             v == x + y + carry
         IN  <<v % DigitBase>>
                \o BigAdd(IF a = <<>> THEN <<>> ELSE Tail(a),
                          IF b = <<>> THEN <<>> ELSE Tail(b),
                          v \div DigitBase)

RECURSIVE BigTimesDigit(_, _, _)
BigTimesDigit(a, d, carry) ==
    IF a = <<>>
    THEN (IF carry = 0 THEN <<>> ELSE <<carry>>)
    ELSE LET v == Head(a) * d + carry
         IN  <<v % DigitBase>> \o BigTimesDigit(Tail(a), d, v \div DigitBase)

RECURSIVE BigMul(_, _)
BigMul(a, b) ==
    IF a = <<>> \/ b = <<>> THEN <<>>
    ELSE LET low == IF Head(b) = 0 THEN <<>> ELSE BigTimesDigit(a, Head(b), 0)
             high == BigMul(a, Tail(b))
         IN  BigAdd(low, IF high = <<>> THEN <<>> ELSE <<0>> \o high, 0)

\* b ** e for integers b >= 0, e >= 0.
RECURSIVE BigPow(_, _)
BigPow(b, e) ==
    IF e = 0 THEN <<1>> ELSE BigMul(BigPow(b, e - 1), BigOf(b))

\* a >= b.
RECURSIVE BigGeq(_, _)
BigGeq(a, b) ==
    IF Len(a) # Len(b) THEN Len(a) > Len(b)
    ELSE IF a = <<>> THEN TRUE
    ELSE IF a[Len(a)] # b[Len(b)] THEN a[Len(a)] > b[Len(b)]
    ELSE BigGeq(SubSeq(a, 1, Len(a) - 1), SubSeq(b, 1, Len(b) - 1))

\* Lines 43-44, with x = min_label_count - threshold >= 0 and
\* p = (threshold + x ** .55) / min_label_count, min_label_count >= 1.
\* random.uniform(0, 1) is some u with 0 <= u < 1.
\* u < p can come out true exactly when p > 0, i.e. x ** .55 > -threshold:
\* always for threshold > 0; for threshold = 0 when x >= 1; for threshold < 0
\* when x >= 2 and x^11 >= (-threshold)^20.  In the last case equality counts
\* because the float .55 lies just above 11/20, so x ** .55 lies above
\* -threshold when x^11 = (-threshold)^20 (x = 2^20, threshold = -2^11).
\* u < p can come out false exactly when p < 1, i.e. x ** .55 < x, i.e.
\* x >= 2.
DrawCanKeep(min_label_count, thr) ==
    LET x == min_label_count - thr
    IN  \/ thr > 0
        \/ thr = 0 /\ x >= 1
        \/ thr < 0 /\ x >= 2 /\ BigGeq(BigPow(x, 11), BigPow(0 - thr, 20))

DrawCanDrop(min_label_count, thr) == min_label_count - thr >= 2

\* Line 39.
IsRare(min_label_count, thr) == min_label_count < thr

\* Lines 65-66.
InfreqLabelsMutant(c, thr) == {l \in DOMAIN c : c[l] < thr - 1}
InfreqLabels(c, thr) == {l \in DOMAIN c : c[l] < thr}

\* Lines 74-76.
HasInfreq(instance, infreq_labels) ==
    \E a \in DOMAIN instance.annotations :
        \E k \in DOMAIN instance.annotations[a].labels :
            instance.annotations[a].labels[k] \in infreq_labels

\* Line 77: random.uniform(0, 1) > rate can come out true exactly when
\* rate < 1 and false exactly when rate >= 0.
DrawCanTrain(r) == r.num < r.den

DrawCanDev(r) == r.num >= 0

InitSample ==
    /\ pc = "count"
    /\ op \in {"downsample", "split"}
    /\ input \in SeqsUpTo(InstancePool, MaxInst)
    /\ threshold \in Thresholds
    /\ rate \in (IF op = "split" THEN Rates ELSE {0})
    /\ line_no = 0
    /\ label_count = <<>>
    /\ total_num = 0
    /\ sample_num = 0
    /\ reported = FALSE
    /\ uniform_calls = <<>>
    /\ output = <<>>
    /\ train_out = <<>>
    /\ dev_out = <<>>
    /\ bert_model = "none"
    /\ IdlePieces /\ IdleExtract

\* count_labels lines 11-14 and split lines 59-63: one line is counted.
CountLine ==
    /\ pc = "count"
    /\ line_no < Len(input)
    /\ label_count' = CountAnnotations(label_count, input[line_no + 1].annotations)
    /\ line_no' = line_no + 1
    /\ UNCHANGED <<pc, op, threshold, rate, total_num, sample_num, reported,
                   uniform_calls, output, train_out, dev_out, bert_model, input>>
    /\ UNCHANGED <<inst, tokenizer, max_len, pieces_list, tk_i, offset,
                   piece_indices, pieces_list_flat, overlength_num, tokens, extractVars>>

\* The counting pass ends (lines 15-17, 65-66) and the second pass opens its
\* files (lines 30, 69-71).
CountEnd ==
    /\ pc = "count"
    /\ line_no = Len(input)
    /\ line_no' = 0
    /\ pc' = IF op = "downsample" THEN "sampling" ELSE "splitting"
    /\ output' = <<>>
    /\ train_out' = <<>>
    /\ dev_out' = <<>>
    /\ UNCHANGED <<op, threshold, rate, label_count, total_num, sample_num,
                   reported, uniform_calls, bert_model, input>>
    /\ UNCHANGED <<inst, tokenizer, max_len, pieces_list, tk_i, offset,
                   piece_indices, pieces_list_flat, overlength_num, tokens, extractVars>>

\* downsample, lines 31-46: one line of the sampling pass.
SampleLine ==
    /\ pc = "sampling"
    /\ line_no < Len(input)
    /\ line_no' = line_no + 1
    /\ total_num' = total_num + 1
    /\ LET line == input[line_no + 1]
           inst_label_count == InstLabelCount(line, label_count)
           min_label_count == MinOf(inst_label_count)
       IN  IF IndexZeroRaises(inst_label_count)
           THEN /\ pc' = "IndexError"
                /\ UNCHANGED <<output, sample_num, uniform_calls>>
           ELSE IF IsRare(min_label_count, threshold)
           THEN /\ output' = Append(output, line)
                /\ sample_num' = sample_num + 1
                /\ UNCHANGED <<pc, uniform_calls>>
           ELSE /\ uniform_calls' = Append(uniform_calls, line_no + 1)
                /\ \/ /\ DrawCanKeep(min_label_count, threshold)
                      /\ output' = Append(output, line)
                      /\ sample_num' = sample_num + 1
                   \/ /\ DrawCanDrop(min_label_count, threshold)
                      /\ UNCHANGED <<output, sample_num>>
                /\ UNCHANGED pc
    /\ UNCHANGED <<op, threshold, rate, label_count, reported, train_out,
                   dev_out, bert_model, input>>
    /\ UNCHANGED <<inst, tokenizer, max_len, pieces_list, tk_i, offset,
                   piece_indices, pieces_list_flat, overlength_num, tokens, extractVars>>

\* downsample, lines 47-48: the totals are printed after the last line.
SampleReport ==
    /\ pc = "sampling"
    /\ line_no = Len(input)
    /\ reported' = TRUE
    /\ pc' = "done"
    /\ UNCHANGED <<op, threshold, rate, label_count, total_num, sample_num,
                   uniform_calls, output, train_out, dev_out, convertVars>>
    /\ UNCHANGED <<inst, tokenizer, max_len, pieces_list, tk_i, offset,
                   piece_indices, pieces_list_flat, overlength_num, tokens, extractVars>>

\* split, lines 72-80: one line of the second pass.
SplitLine ==
    /\ pc = "splitting"
    /\ line_no < Len(input)
    /\ line_no' = line_no + 1
    /\ LET line == input[line_no + 1]
           infreq == HasInfreq(line, InfreqLabels(label_count, threshold))
       IN  IF infreq
           THEN /\ train_out' = Append(train_out, line)
                /\ UNCHANGED <<dev_out, uniform_calls>>
           ELSE /\ uniform_calls' = Append(uniform_calls, line_no + 1)
                /\ \/ /\ DrawCanTrain(rate)
                      /\ train_out' = Append(train_out, line)
                      /\ UNCHANGED dev_out
                   \/ /\ DrawCanDev(rate)
                      /\ dev_out' = Append(dev_out, line)
                      /\ UNCHANGED train_out
    /\ UNCHANGED <<pc, op, threshold, rate, label_count, total_num, sample_num,
                   reported, output, bert_model, input>>
    /\ UNCHANGED <<inst, tokenizer, max_len, pieces_list, tk_i, offset,
                   piece_indices, pieces_list_flat, overlength_num, tokens, extractVars>>

\* split, line 72 at the end of the input.
SplitEnd ==
    /\ pc = "splitting"
    /\ line_no = Len(input)
    /\ pc' = "done"
    /\ UNCHANGED <<op, threshold, rate, label_count, total_num, sample_num,
                   reported, uniform_calls, output, train_out, dev_out,
                   convertVars>>
    /\ UNCHANGED <<inst, tokenizer, max_len, pieces_list, tk_i, offset,
                   piece_indices, pieces_list_flat, overlength_num, tokens, extractVars>>

NextSample ==
    \/ CountLine
    \/ CountEnd
    \/ SampleLine
    \/ SampleReport
    \/ SplitLine
    \/ SplitEnd

SpecSample == InitSample /\ [][NextSample]_vars

(***************************************************************************)
(* Claims about count_labels, downsample and split.                        *)
(***************************************************************************)
\* The elements of s at the indices in T, in order.
RECURSIVE PickFrom(_, _, _)
PickFrom(s, T, i) ==
    IF i > Len(s) THEN <<>>
    ELSE (IF i \in T THEN <<s[i]>> ELSE <<>>) \o PickFrom(s, T, i + 1)

Pick(s, T) == PickFrom(s, T, 1)

\* The (instance, annotation, position) places of a corpus's label lists.
LabelPlaces(corpus) ==
    UNION {UNION {{<<i, a, k>> : k \in DOMAIN corpus[i].annotations[a].labels} :
                     a \in DOMAIN corpus[i].annotations} :
              i \in DOMAIN corpus}

\* Number of places of the corpus that hold label l.
Occurrences(corpus, l) ==
    Cardinality({t \in LabelPlaces(corpus) :
                    corpus[t[1]].annotations[t[2]].labels[t[3]] = l})

\* Number of (instance, annotation) pairs whose label list contains l.
CarryingPairs(corpus, l) ==
    Cardinality({<<t[1], t[2]>> : t \in
                    {u \in LabelPlaces(corpus) :
                        corpus[u[1]].annotations[u[2]].labels[u[3]] = l}})

Perms(n) == {f \in [1..n -> 1..n] : \A i, j \in 1..n : f[i] = f[j] => i = j}

Permute(s, f) == [i \in DOMAIN s |-> s[f[i]]]

PastCount == pc \in {"sampling", "splitting", "done", "IndexError"}

\* C8 as stated: the table maps each label to the number of (instance,
\* annotation) pairs whose annotation carries the label.
C8_CountsPairs ==
    PastCount =>
        /\ DOMAIN label_count = {l \in LabelPool : CarryingPairs(input, l) > 0}
        /\ \A l \in DOMAIN label_count : label_count[l] = CarryingPairs(input, l)

\* C8 amended: the table of count_labels, and of split's first pass, maps each
\* label to the number of its occurrences in the label lists of all
\* annotations of all instances (a label repeated in one list counts each
\* time), and, as the counting pass returns it, is the same for every
\* permutation of the instances and of the annotations within an instance.
C8_CountsOccurrences ==
    PastCount =>
        /\ DOMAIN label_count = {l \in LabelPool : Occurrences(input, l) > 0}
        /\ \A l \in DOMAIN label_count : label_count[l] = Occurrences(input, l)
        /\ line_no = 0 =>
              /\ \A f \in Perms(Len(input)) :
                    count_labels(Permute(input, f)) = label_count
              /\ \A i \in DOMAIN input :
                    \A g \in Perms(Len(input[i].annotations)) :
                        count_labels([input EXCEPT
                                         ![i].annotations = Permute(@, g)])
                            = label_count

\* C8 witness: split's first pass has counted a corpus in which one
\* annotation repeats a label and another instance has two annotations.
C8_Witness ==
    /\ pc = "splitting"
    /\ input = <<Inst(<<Ann(<<"A", "A">>)>>),
                 Inst(<<Ann(<<"B">>), Ann(<<"B", "A">>)>>)>>
    /\ CounterGet(label_count, "A") = 3
    /\ CounterGet(label_count, "B") = 2

\* An instance without any label.
NoLabel(instance) ==
    \A a \in DOMAIN instance.annotations : instance.annotations[a].labels = <<>>

LabelsOf(instance) ==
    UNION {Range(instance.annotations[a].labels) : a \in DOMAIN instance.annotations}

\* min_count of the spec: the least corpus-wide frequency of the instance's
\* labels, taken from the corpus itself.
RarestBelow(instance, corpus, thr) ==
    \E l \in LabelsOf(instance) : Occurrences(corpus, l) < thr

\* C4: rare-label protection.  When downsample has ended, every instance whose
\* min_count is below the threshold is in the output exactly once, and
\* random.uniform was not called for it.
C4_RareProtected ==
    (op = "downsample" /\ pc \in {"done", "IndexError"}) =>
        \E T \in SUBSET (1..Len(input)) :
            /\ output = Pick(input, T)
            /\ \A i \in 1..Len(input) :
                  RarestBelow(input[i], input, threshold) =>
                      (i \in T /\ i \notin Range(uniform_calls))

\* C5: split partition.  During and after the second pass every line read so
\* far is in exactly one of train and dev, once, in input order, and every
\* line with a label whose corpus-wide count is below the threshold is in
\* train; the pass ends only after the last line.
C5_SplitPartition ==
    (op = "split" /\ pc \in {"splitting", "done"}) =>
        /\ pc = "done" => line_no = Len(input)
        /\ \E T \in SUBSET (1..line_no) :
              /\ train_out = Pick(SubSeq(input, 1, line_no), T)
              /\ dev_out = Pick(SubSeq(input, 1, line_no), (1..line_no) \ T)
              /\ \A i \in 1..line_no :
                    RarestBelow(input[i], input, threshold) => i \in T

\* C5 witness: split has ended on three lines, one with an infrequent label
\* in train, one line in dev.
C5_Witness ==
    /\ op = "split"
    /\ pc = "done"
    /\ Len(input) = 3
    /\ Len(dev_out) >= 1
    /\ \E i \in DOMAIN train_out : RarestBelow(train_out[i], input, threshold)
    /\ \E i \in DOMAIN input : ~RarestBelow(input[i], input, threshold)
                                /\ ~NoLabel(input[i])

\* C10: an instance without labels aborts downsample.  The sampling pass never
\* gets past such a line; when it reaches one the run stops in IndexError with
\* the line counted in total_num, nothing written for it or after it (no step
\* follows), the totals not reported, and the output holding, in input order,
\* lines that precede it, among them every rare one.
C10_NoLabelAborts ==
    op = "downsample" =>
        /\ pc \in {"sampling", "done"} =>
              \A i \in 1..line_no : ~NoLabel(input[i])
        /\ reported => pc = "done"
        /\ pc = "IndexError" =>
              /\ line_no >= 1
              /\ NoLabel(input[line_no])
              /\ \A i \in 1..(line_no - 1) : ~NoLabel(input[i])
              /\ total_num = line_no
              /\ sample_num = Len(output)
              /\ ~reported
              /\ ~ENABLED NextSample
              /\ \E T \in SUBSET (1..(line_no - 1)) :
                    /\ output = Pick(input, T)
                    /\ \A i \in 1..(line_no - 1) :
                          RarestBelow(input[i], input, threshold) => i \in T
                    /\ \A i \in T :
                          \/ RarestBelow(input[i], input, threshold)
                          \/ i \in Range(uniform_calls)

\* C10 witness: the run aborted on the second of three lines after writing
\* the first.
C10_Witness ==
    /\ op = "downsample"
    /\ pc = "IndexError"
    /\ Len(input) = 3
    /\ line_no = 2
    /\ output = <<input[1]>>
    /\ ~NoLabel(input[3])

(***************************************************************************)
(* wikiann2cfet.py                                                         *)
(***************************************************************************)
\* Number of records the store returns.
MaxDocs == 2

\* The title field name (-t).
title_field_name == "title"

\* The entity type file: entity title (a sequence of characters or words,
\* blanks already replaced) to its type list.
EntityTitles == {<<"Cat">>, <<"New", "_", "York">>, <<"Foo">>}

entity_type_map(title) ==
    CASE title = <<"Cat">>              -> <<"Thing", "Animal">>
      [] title = <<"New", "_", "York">> -> <<"Place", "Thing", "Animal">>
      [] OTHER                          -> <<"Thing">>

\* The ontology file.
type_set == {"Animal", "Place"}

\* Line 114: title.replace(' ', '_').
ReplaceBlanks(title) ==
    [i \in DOMAIN title |-> IF title[i] = " " THEN "_" ELSE title[i]]

\* Line 120: the types of the list that are target types, in order.
RECURSIVE KeepTargetTypes(_)
KeepTargetTypes(types) ==
    IF types = <<>> THEN <<>>
    ELSE (IF Head(types) \in type_set THEN <<Head(types)>> ELSE <<>>)
             \o KeepTargetTypes(Tail(types))

Tok(text, start, end) == [text |-> text, start |-> start, end |-> end]

\* doc['tokens']: a sentence with ordered, disjoint character spans, and one
\* whose two tokens overlap.
TokensPlain == <<Tok("The", 0, 3), Tok("cat", 4, 7), Tok("sat", 8, 11)>>

TokensOverlap == <<Tok("Thecat", 0, 7), Tok("catsat", 4, 11)>>

Link(fields, title, text, start, end) ==
    [fields |-> fields, title |-> title, text |-> text,
     start |-> start, end |-> end]

LinkCat == Link({"title"}, <<"Cat">>, "cat", 4, 7)

LinkAll == Link({"title"}, <<"New", " ", "York">>, "The cat sat", 0, 11)

LinkUnaligned == Link({"title"}, <<"Cat">>, "e ca", 2, 6)

LinkHalfAligned == Link({"title"}, <<"Cat">>, "ca", 4, 6)

LinkNoTarget == Link({"title"}, <<"Foo">>, "cat", 4, 7)

LinkReversed == Link({"title"}, <<"Cat">>, "", 8, 3)

LinkNoTitle == Link({"id"}, <<>>, "The", 0, 3)

LinkUnknown == Link({"title"}, <<"Bar">>, "The", 0, 3)

\* doc['links'] of the records.
LinkLists ==
    {<<LinkCat>>,
     <<LinkCat, LinkAll>>,
     <<LinkUnaligned, LinkCat>>,
     <<LinkCat, LinkUnaligned, LinkAll>>,
     <<LinkNoTarget, LinkCat>>,
     <<LinkNoTarget>>,
     <<LinkHalfAligned>>,
     <<LinkReversed>>,
     <<LinkReversed, LinkCat>>,
     <<LinkNoTitle, LinkUnknown, LinkCat>>}

\* The records of the sentences collection that have links.
DocPool ==
    {[id |-> d[1], tokens |-> d[2], links |-> l] :
        d \in {<<"d1", TokensPlain>>, <<"d2", TokensPlain>>,
               <<"d1", TokensOverlap>>},
        l \in LinkLists}

\* A dict assignment m[k] = v.
DictPut(m, k, v) == [x \in DOMAIN m \cup {k} |-> IF x = k THEN v ELSE m[x]]

\* Lines 135-137: the two offset maps after the first n tokens; a later token
\* overwrites an earlier one at the same offset.
RECURSIVE StartOffsetMap(_, _)
StartOffsetMap(toks, n) ==
    IF n = 0 THEN <<>>
    ELSE DictPut(StartOffsetMap(toks, n - 1), toks[n].start, n - 1)

EndIndex(token_idx) == token_idx + 1

RECURSIVE EndOffsetMap(_, _)
EndOffsetMap(toks, n) ==
    IF n = 0 THEN <<>>
    ELSE DictPut(EndOffsetMap(toks, n - 1), toks[n].end, EndIndex(n - 1))

\* Lines 141-142.
NotMatchedMutant(start, end, start_map, end_map) ==
    start \notin DOMAIN start_map \/ end \notin DOMAIN end_map \/ end <= start
NotMatched(start, end, start_map, end_map) ==
    start \notin DOMAIN start_map \/ end \notin DOMAIN end_map

\* Lines 149-150: '{}-{}'.format(doc_id, doc_mention_count[doc_id]).
MentionIdMutant(doc_id, counter, anns) == [doc |-> doc_id, idx |-> Len(anns)]
MentionId(doc_id, counter, anns) ==
    [doc |-> doc_id, idx |-> CounterGet(counter, doc_id)]

InitExtract ==
    /\ pc = "find"
    /\ store \in SeqsUpTo(DocPool, MaxDocs)
    /\ line_no = 0
    /\ doc = <<>>
    /\ doc_mention_count = <<>>
    /\ valid_num = 0
    /\ entity_num = 0
    /\ not_matched_num = 0
    /\ title_num = 0
    /\ link_i = 0
    /\ entities = <<>>
    /\ token_start_offset_map = <<>>
    /\ token_end_offset_map = <<>>
    /\ ent_i = 0
    /\ annotations = <<>>
    /\ output = <<>>
    /\ bert_model = "none"
    /\ input = <<>>
    /\ IdlePieces /\ IdleSample

extractFrame == <<inst, tokenizer, max_len, pieces_list, tk_i, offset,
                  piece_indices, pieces_list_flat, overlength_num, tokens, bert_model, input, sampleVars>>

\* Lines 106-109: the store returns the next record.
NextDoc ==
    /\ pc = "find"
    /\ line_no < Len(store)
    /\ line_no' = line_no + 1
    /\ doc' = store[line_no + 1]
    /\ entities' = <<>>
    /\ link_i' = 0
    /\ pc' = "links"
    /\ UNCHANGED <<store, doc_mention_count, valid_num, entity_num,
                   not_matched_num, title_num, token_start_offset_map,
                   token_end_offset_map, ent_i, annotations, output>>
    /\ UNCHANGED extractFrame

\* Lines 110-126: one link of the record.
ExamineLink ==
    /\ pc = "links"
    /\ link_i < Len(doc.links)
    /\ link_i' = link_i + 1
    /\ LET link == doc.links[link_i + 1]
           title == ReplaceBlanks(link.title)
           types == KeepTargetTypes(entity_type_map(title))
       IN  IF title_field_name \notin link.fields
           THEN UNCHANGED <<title_num, entities>>
           ELSE IF title \notin EntityTitles
           THEN UNCHANGED <<title_num, entities>>
           ELSE /\ title_num' = title_num + 1
                /\ entities' =
                      IF types # <<>>
                      THEN Append(entities, [text |-> link.text,
                                             start |-> link.start,
                                             end |-> link.end,
                                             types |-> types])
                      ELSE entities
    /\ UNCHANGED <<pc, store, line_no, doc, doc_mention_count, valid_num,
                   entity_num, not_matched_num, token_start_offset_map,
                   token_end_offset_map, ent_i, annotations, output>>
    /\ UNCHANGED extractFrame

\* Line 129 with no valid entity: the record is left.
NoEntities ==
    /\ pc = "links"
    /\ link_i = Len(doc.links)
    /\ entities = <<>>
    /\ pc' = "find"
    /\ UNCHANGED <<store, line_no, doc, doc_mention_count, valid_num,
                   entity_num, not_matched_num, title_num, link_i, entities,
                   token_start_offset_map, token_end_offset_map, ent_i,
                   annotations, output>>
    /\ UNCHANGED extractFrame

\* Lines 129-139: the offset maps of the record's tokens are built.
BuildOffsetMaps ==
    /\ pc = "links"
    /\ link_i = Len(doc.links)
    /\ entities # <<>>
    /\ entity_num' = entity_num + 1
    /\ token_start_offset_map' = StartOffsetMap(doc.tokens, Len(doc.tokens))
    /\ token_end_offset_map' = EndOffsetMap(doc.tokens, Len(doc.tokens))
    /\ annotations' = <<>>
    /\ ent_i' = 0
    /\ pc' = "match"
    /\ UNCHANGED <<store, line_no, doc, doc_mention_count, valid_num,
                   not_matched_num, title_num, link_i, entities, output>>
    /\ UNCHANGED extractFrame

\* Lines 140-155: one entity is matched to token boundaries, or not.
MatchEntity ==
    /\ pc = "match"
    /\ ent_i < Len(entities)
    /\ ent_i' = ent_i + 1
    /\ LET e == entities[ent_i + 1]
       IN  IF NotMatched(e.start, e.end, token_start_offset_map,
                         token_end_offset_map)
           THEN /\ not_matched_num' = not_matched_num + 1
                /\ UNCHANGED <<annotations, doc_mention_count>>
           ELSE /\ annotations' = Append(annotations,
                      [mention |-> e.text,
                       mention_id |-> MentionId(doc.id, doc_mention_count,
                                                annotations),
                       start |-> token_start_offset_map[e.start],
                       end |-> token_end_offset_map[e.end],
                       labels |-> e.types])
                /\ doc_mention_count' = CounterAdd(doc_mention_count, doc.id)
                /\ UNCHANGED not_matched_num
    /\ UNCHANGED <<pc, store, line_no, doc, valid_num, entity_num, title_num,
                   link_i, entities, token_start_offset_map,
                   token_end_offset_map, output>>
    /\ UNCHANGED extractFrame

\* Lines 158-163: the record is written when it has annotations.
EmitDoc ==
    /\ pc = "match"
    /\ ent_i = Len(entities)
    /\ IF annotations # <<>>
       THEN /\ valid_num' = valid_num + 1
            /\ output' = Append(output,
                  [tokens |-> [i \in DOMAIN doc.tokens |-> doc.tokens[i].text],
                   annotations |-> annotations])
       ELSE UNCHANGED <<valid_num, output>>
    /\ pc' = "find"
    /\ UNCHANGED <<store, line_no, doc, doc_mention_count, entity_num,
                   not_matched_num, title_num, link_i, entities,
                   token_start_offset_map, token_end_offset_map, ent_i,
                   annotations>>
    /\ UNCHANGED extractFrame

\* Line 106 after the last record.
ExtractEnd ==
    /\ pc = "find"
    /\ line_no = Len(store)
    /\ pc' = "done"
    /\ UNCHANGED <<store, line_no, doc, doc_mention_count, valid_num,
                   entity_num, not_matched_num, title_num, link_i, entities,
                   token_start_offset_map, token_end_offset_map, ent_i,
                   annotations, output>>
    /\ UNCHANGED extractFrame

NextExtract ==
    \/ NextDoc
    \/ ExamineLink
    \/ NoEntities
    \/ BuildOffsetMaps
    \/ MatchEntity
    \/ EmitDoc
    \/ ExtractEnd

SpecExtract == InitExtract /\ [][NextExtract]_vars

(***************************************************************************)
(* Claims about extract_data.                                              *)
(***************************************************************************)
\* The link names an entity with at least one ontology type.
Typed(link) ==
    /\ title_field_name \in link.fields
    /\ ReplaceBlanks(link.title) \in EntityTitles
    /\ \E k \in DOMAIN entity_type_map(ReplaceBlanks(link.title)) :
          entity_type_map(ReplaceBlanks(link.title))[k] \in type_set

\* The link's start is the start offset of a token and its end the end
\* offset of a token.
Aligned(link, toks) ==
    /\ \E t \in DOMAIN toks : toks[t].start = link.start
    /\ \E t \in DOMAIN toks : toks[t].end = link.end

Largest(S) == CHOOSE x \in S : \A y \in S : y <= x

\* The annotation of an aligned, typed link, without its mention_id: start is
\* the index of the token starting at the link's start, end one plus the
\* index of the token ending at the link's end (indices from 0).
SpanOf(link, toks) ==
    [mention |-> link.text,
     start |-> Largest({t \in DOMAIN toks : toks[t].start = link.start}) - 1,
     end |-> Largest({t \in DOMAIN toks : toks[t].end = link.end}),
     labels |-> KeepTargetTypes(entity_type_map(ReplaceBlanks(link.title)))]

RECURSIVE SpansOf(_, _)
SpansOf(links, toks) ==
    IF links = <<>> THEN <<>>
    ELSE (IF Typed(Head(links)) /\ Aligned(Head(links), toks)
          THEN <<SpanOf(Head(links), toks)>> ELSE <<>>)
             \o SpansOf(Tail(links), toks)

RECURSIVE TypedLinks(_)
TypedLinks(links) ==
    IF links = <<>> THEN <<>>
    ELSE (IF Typed(Head(links)) THEN <<Head(links)>> ELSE <<>>)
             \o TypedLinks(Tail(links))

\* Number of typed links of the list that are not aligned.
RECURSIVE Unaligned(_, _)
Unaligned(links, toks) ==
    IF links = <<>> THEN 0
    ELSE (IF Typed(Head(links)) /\ ~Aligned(Head(links), toks) THEN 1 ELSE 0)
             + Unaligned(Tail(links), toks)

\* The links of the list with the typed, unaligned ones removed.
RECURSIVE WithoutUnaligned(_, _)
WithoutUnaligned(links, toks) ==
    IF links = <<>> THEN <<>>
    ELSE (IF Typed(Head(links)) /\ ~Aligned(Head(links), toks)
          THEN <<>> ELSE <<Head(links)>>)
             \o WithoutUnaligned(Tail(links), toks)

StripId(anns) ==
    [k \in DOMAIN anns |-> [mention |-> anns[k].mention, start |-> anns[k].start,
                            end |-> anns[k].end, labels |-> anns[k].labels]]

\* Number of records whose processing has ended.
Completed == IF pc \in {"find", "done"} THEN line_no ELSE line_no - 1

\* The output lines due for the first n records: one per record that has an
\* aligned typed link, with the annotations of its links other than the
\* unaligned ones.
RECURSIVE DueLines(_)
DueLines(n) ==
    IF n = 0 THEN <<>>
    ELSE LET d == store[n]
             spans == SpansOf(WithoutUnaligned(d.links, d.tokens), d.tokens)
         IN  DueLines(n - 1) \o
                (IF spans = <<>> THEN <<>>
                 ELSE <<[tokens |-> [i \in DOMAIN d.tokens |-> d.tokens[i].text],
                         annotations |-> spans]>>)

RECURSIVE UnalignedUpTo(_)
UnalignedUpTo(n) ==
    IF n = 0 THEN 0
    ELSE UnalignedUpTo(n - 1) + Unaligned(store[n].links, store[n].tokens)

\* C7: unmatched link handling.  A typed link is dropped and counted in
\* not_matched_num exactly when it is not aligned to token boundaries: the
\* counter is the number of typed unaligned links examined so far, the
\* annotations of a record are those of its other links (same spans, labels
\* and order as if the unaligned links were absent), and a record with at
\* least one such annotation is written.
C7_UnmatchedLinks ==
    /\ not_matched_num = UnalignedUpTo(Completed)
          + (IF pc = "match"
             THEN Unaligned(SubSeq(TypedLinks(doc.links), 1, ent_i), doc.tokens)
             ELSE 0)
    /\ pc = "match" =>
          /\ Len(entities) = Len(TypedLinks(doc.links))
          /\ StripId(annotations) =
                SpansOf(WithoutUnaligned(SubSeq(TypedLinks(doc.links), 1, ent_i),
                                         doc.tokens), doc.tokens)
    /\ [k \in DOMAIN output |->
           [tokens |-> output[k].tokens,
            annotations |-> StripId(output[k].annotations)]]
          = DueLines(Completed)

\* C7 witness: a record with an unaligned link between two aligned ones has
\* been written with two annotations, the drop counted.
C7_Witness ==
    /\ pc = "done"
    /\ Len(store) >= 1
    /\ store[1].links = <<LinkCat, LinkUnaligned, LinkAll>>
    /\ store[1].tokens = TokensPlain
    /\ not_matched_num >= 1
    /\ Len(output) >= 1
    /\ StripId(output[1].annotations) =
          <<[mention |-> "cat", start |-> 1, end |-> 2, labels |-> <<"Animal">>],
            [mention |-> "The cat sat", start |-> 0, end |-> 3,
             labels |-> <<"Place", "Animal">>]>>

\* Every annotation created so far, in creation order.
Created ==
    Flatten([k \in DOMAIN output |-> output[k].annotations])
        \o (IF pc = "match" THEN annotations ELSE <<>>)

RECURSIVE SuffixesOf(_, _)
SuffixesOf(anns, id) ==
    IF anns = <<>> THEN <<>>
    ELSE (IF Head(anns).mention_id.doc = id
          THEN <<Head(anns).mention_id.idx>> ELSE <<>>)
             \o SuffixesOf(Tail(anns), id)

DocIds == {store[k].id : k \in DOMAIN store}

\* C6 as stated: the annotations of every record have the suffixes 0, 1, ...
\* in link order.
C6_SuffixesFromZero ==
    pc = "match" =>
        \A k \in DOMAIN annotations :
            annotations[k].mention_id = [doc |-> doc.id, idx |-> k - 1]

\* C6 amended: the running index belongs to the doc id, not to the record.
\* The annotations created for a record carry its doc id and the suffixes
\* k, k+1, ... in link order, k being the number of annotations created by
\* earlier records with the same doc id (0 for the first such record); the
\* counter of a doc id is the number of annotations created for it, so it
\* grows by one per created annotation and not on a link that is unmatched
\* or has no ontology type.
C6_SuffixesPerDocId ==
    /\ \A id \in DocIds :
          /\ SuffixesOf(Created, id) =
                [k \in 1..Len(SuffixesOf(Created, id)) |-> k - 1]
          /\ CounterGet(doc_mention_count, id) = Len(SuffixesOf(Created, id))
    /\ DOMAIN doc_mention_count \subseteq DocIds
    /\ pc = "match" =>
          \A k \in DOMAIN annotations :
              annotations[k].mention_id =
                  [doc |-> doc.id,
                   idx |-> Len(SuffixesOf(
                               Flatten([j \in DOMAIN output |->
                                           output[j].annotations]),
                               doc.id)) + k - 1]

\* C6 witness: two records of one doc id were written, the first with two
\* annotations around a dropped link, the second continuing at suffix 2.
C6_Witness ==
    /\ pc = "done"
    /\ Len(output) = 2
    /\ store[1].links = <<LinkCat, LinkUnaligned, LinkAll>>
    /\ store[2].links = <<LinkNoTarget, LinkCat>>
    /\ output[1].annotations[2].mention_id = [doc |-> "d1", idx |-> 1]
    /\ output[2].annotations[1].mention_id = [doc |-> "d1", idx |-> 2]

\* Token spans ordered and disjoint, each with start < end.
WellFormedTokens(toks) ==
    /\ \A t \in DOMAIN toks : toks[t].start < toks[t].end
    /\ \A t \in DOMAIN toks :
          t < Len(toks) => toks[t].end <= toks[t + 1].start

\* C9: annotation span invariant.  For a record with well-formed tokens every
\* annotation built for the output has 0 <= start < end <= len(tokens).
C9_SpanInvariant ==
    (pc = "match" /\ WellFormedTokens(doc.tokens)) =>
        \A k \in DOMAIN annotations :
            /\ 0 <= annotations[k].start
            /\ annotations[k].start < annotations[k].end
            /\ annotations[k].end <= Len(doc.tokens)

====
